---- MODULE Spec2Model ----
(***************************************************************************)
(* Model of snowflake/snowpark/_internal/type_utils.py (the canonical type *)
(* model's type-string codec, type inference, schema inference and schema  *)
(* merge) and of the mock aggregate-function registry and group-by engine  *)
(* exercised by tests/mock/test_agg.py.                                    *)
(*                                                                         *)
(* Python strings are modelled as sequences of one-character strings, so   *)
(* that formatting, regular-expression matching, lower-casing and space    *)
(* removal are computed, not assumed.  A DataType is a record whose field  *)
(* k names its class; a raised exception is a record whose k is the        *)
(* exception class.                                                        *)
(***************************************************************************)
EXTENDS Integers, Sequences, FiniteSets, TLC

VARIABLES pc, datatype, type_str, given, obj, result,
          hist, prev, acc,
          registry, registered, executed, outcome,
          names, given_names, ncalls, last_call,
          rows, group_keys, aggregate_specs, stage, partitions, aggregated,
          output, raised

vars == <<pc, datatype, type_str, given, obj, result,
          hist, prev, acc, registry, registered, executed, outcome,
          names, given_names, ncalls, last_call,
          rows, group_keys, aggregate_specs, stage, partitions, aggregated,
          output, raised>>

codec_vars == <<pc, datatype, type_str, given, obj, result>>
merge_vars == <<hist, prev, acc>>
registry_vars == <<registry, registered, executed, outcome>>
schema_vars == <<names, given_names, ncalls, last_call>>
engine_vars == <<rows, group_keys, aggregate_specs, stage, partitions, aggregated,
                 output, raised>>

(***************************************************************************)
(* Bounds of the model.                                                    *)
(***************************************************************************)
MaxPrecision == 11
MaxWs == 1
MaxItems == 3
MaxChain == 3
MaxRegistrations == 3
MaxRequest == 2
MaxRows == 3
MaxNames == 2
MaxCalls == 3

(***************************************************************************)
(* Python values that stand for "no value".                                *)
(***************************************************************************)
None == [k |-> "None"]

(***************************************************************************)
(* snowflake.snowpark.types: the DataType variants used by type_utils.     *)
(***************************************************************************)
Atomic(cls) == [k |-> cls]
NullType == Atomic("Null")
BooleanType == Atomic("Boolean")
ByteType == Atomic("Byte")
ShortType == Atomic("Short")
IntegerType == Atomic("Integer")
LongType == Atomic("Long")
FloatType == Atomic("Float")
DoubleType == Atomic("Double")
StringType == Atomic("String")
BinaryType == Atomic("Binary")
DateType == Atomic("Date")
TimeType == Atomic("Time")
TimestampType == Atomic("Timestamp")
VariantType == Atomic("Variant")
GeographyType == Atomic("Geography")
DecimalType(precision, scale) == [k |-> "Decimal", precision |-> precision, scale |-> scale]
ArrayType(element_type) == [k |-> "Array", element_type |-> element_type]
MapType(key_type, value_type) == [k |-> "Map", key_type |-> key_type, value_type |-> value_type]
StructField(name, dt, nullable) == [name |-> name, datatype |-> dt, nullable |-> nullable]
StructType(fields) == [k |-> "Struct", fields |-> fields]

\* StructField(name, datatype): the constructor's default for nullable.
StructFieldDefaultNullable == TRUE

\* The instance a class gives when constructed with no argument, cls().
DefaultDecimalPrecision == 38
DefaultDecimalScale == 0
Construct(cls) ==
    CASE cls = "Decimal" -> DecimalType(DefaultDecimalPrecision, DefaultDecimalScale)
      [] cls = "Array" -> ArrayType(StringType)
      [] cls = "Map" -> MapType(StringType, StringType)
      [] cls = "Struct" -> StructType(<<>>)
      [] OTHER -> Atomic(cls)

IsError(r) == r.k \in {"TypeError", "ValueError", "NotImplementedError"}

(***************************************************************************)
(* Characters and strings.                                                 *)
(***************************************************************************)
UpperLetters == <<"A", "B", "C", "D", "E", "F", "G", "H", "I", "J", "K", "L", "M",
                  "N", "O", "P", "Q", "R", "S", "T", "U", "V", "W", "X", "Y", "Z">>
LowerLetters == <<"a", "b", "c", "d", "e", "f", "g", "h", "i", "j", "k", "l", "m",
                  "n", "o", "p", "q", "r", "s", "t", "u", "v", "w", "x", "y", "z">>
Digits == <<"0", "1", "2", "3", "4", "5", "6", "7", "8", "9">>

\* str.lower(), one character
lower_char(c) ==
    IF \E i \in 1..26 : UpperLetters[i] = c
    THEN LowerLetters[CHOOSE i \in 1..26 : UpperLetters[i] = c]
    ELSE c
\* str.lower()
lower(s) == [i \in 1..Len(s) |-> lower_char(s[i])]
\* str.upper(), one character and whole string
upper_char(c) ==
    IF \E i \in 1..26 : LowerLetters[i] = c
    THEN UpperLetters[CHOOSE i \in 1..26 : LowerLetters[i] = c]
    ELSE c
upper(s) == [i \in 1..Len(s) |-> upper_char(s[i])]
\* str.capitalize() of a lower-case word
capitalize(s) == [i \in 1..Len(s) |-> IF i = 1 THEN upper_char(s[i]) ELSE s[i]]

\* type_str.replace(" ", "")
IsNotBlank(c) == c # " "
replace_spaces(s) == SelectSeq(s, IsNotBlank)

\* \s and \d of the re module, over the model's alphabet
IsSpace(c) == c \in {" ", "\t", "\n"}
IsDigit(c) == \E i \in 1..10 : Digits[i] = c
DigitValue(c) == (CHOOSE i \in 1..10 : Digits[i] = c) - 1

\* f"{n}" of a natural number
RECURSIVE int_to_str(_)
int_to_str(n) ==
    IF n < 10 THEN <<Digits[n + 1]>>
    ELSE Append(int_to_str(n \div 10), Digits[(n % 10) + 1])

\* int(s) of a string of digits; int("") raises ValueError
RECURSIVE digits_value(_)
digits_value(s) ==
    IF s = <<>> THEN 0
    ELSE 10 * digits_value(SubSeq(s, 1, Len(s) - 1)) + DigitValue(s[Len(s)])
IntLiteralError ==
    [k |-> "ValueError",
     msg |-> <<"i", "n", "v", "a", "l", "i", "d", " ", "l", "i", "t", "e", "r", "a", "l",
               " ", "f", "o", "r", " ", "i", "n", "t", "(", ")", " ", "w", "i", "t", "h",
               " ", "b", "a", "s", "e", " ", "1", "0", ":", " ", "'", "'">>]
int(s) == IF s = <<>> THEN IntLiteralError ELSE [k |-> "int", v |-> digits_value(s)]

\* whether `sub` occurs in `s`
Contains(s, sub) ==
    \E i \in 1..(Len(s) - Len(sub) + 1) : SubSeq(s, i, i + Len(sub) - 1) = sub

(***************************************************************************)
(* convert_to_sf_type                                                      *)
(***************************************************************************)
Str(s) == [k |-> "str", s |-> s]

convert_to_sf_type(dt) ==
    CASE dt.k = "Decimal" ->
            Str(<<"N", "U", "M", "B", "E", "R", "(">> \o int_to_str(dt.precision)
                \o <<",", " ">> \o int_to_str(dt.scale) \o <<")">>)
      [] dt.k = "Integer" -> Str(<<"I", "N", "T">>)
      [] dt.k = "Short" -> Str(<<"S", "M", "A", "L", "L", "I", "N", "T">>)
      [] dt.k = "Byte" -> Str(<<"B", "Y", "T", "E", "I", "N", "T">>)
      [] dt.k = "Long" -> Str(<<"B", "I", "G", "I", "N", "T">>)
      [] dt.k = "Float" -> Str(<<"F", "L", "O", "A", "T">>)
      [] dt.k = "Double" -> Str(<<"D", "O", "U", "B", "L", "E">>)
      [] dt.k \in {"String", "Null"} -> Str(<<"S", "T", "R", "I", "N", "G">>)
      [] dt.k = "Boolean" -> Str(<<"B", "O", "O", "L", "E", "A", "N">>)
      [] dt.k = "Date" -> Str(<<"D", "A", "T", "E">>)
      [] dt.k = "Time" -> Str(<<"T", "I", "M", "E">>)
      [] dt.k = "Timestamp" -> Str(<<"T", "I", "M", "E", "S", "T", "A", "M", "P">>)
      [] dt.k = "Binary" -> Str(<<"B", "I", "N", "A", "R", "Y">>)
      [] dt.k = "Array" -> Str(<<"A", "R", "R", "A", "Y">>)
      [] dt.k = "Map" -> Str(<<"O", "B", "J", "E", "C", "T">>)
      [] dt.k = "Variant" -> Str(<<"V", "A", "R", "I", "A", "N", "T">>)
      [] dt.k = "Geography" -> Str(<<"G", "E", "O", "G", "R", "A", "P", "H", "Y">>)
      [] OTHER -> [k |-> "TypeError", msg |-> <<"Unsupported data type:", dt.k>>]

(***************************************************************************)
(* _DATA_TYPE_STRING_OBJECT_MAPPINGS                                       *)
(***************************************************************************)
KwNumeric == <<"n", "u", "m", "e", "r", "i", "c">>
KwNumber == <<"n", "u", "m", "b", "e", "r">>
KwDecimal == <<"d", "e", "c", "i", "m", "a", "l">>

\* the entries _get_data_type_string_object_mappings derives from the DataType
\* subclasses: the class name without "Type", lower-cased; DecimalType is skipped
SubclassMappings ==
    { <<<<"n", "u", "l", "l">>, "Null">>,
      <<<<"b", "i", "n", "a", "r", "y">>, "Binary">>,
      <<<<"b", "o", "o", "l", "e", "a", "n">>, "Boolean">>,
      <<<<"d", "a", "t", "e">>, "Date">>,
      <<<<"s", "t", "r", "i", "n", "g">>, "String">>,
      <<<<"t", "i", "m", "e", "s", "t", "a", "m", "p">>, "Timestamp">>,
      <<<<"t", "i", "m", "e">>, "Time">>,
      <<<<"b", "y", "t", "e">>, "Byte">>,
      <<<<"s", "h", "o", "r", "t">>, "Short">>,
      <<<<"i", "n", "t", "e", "g", "e", "r">>, "Integer">>,
      <<<<"l", "o", "n", "g">>, "Long">>,
      <<<<"f", "l", "o", "a", "t">>, "Float">>,
      <<<<"d", "o", "u", "b", "l", "e">>, "Double">>,
      <<<<"a", "r", "r", "a", "y">>, "Array">>,
      <<<<"m", "a", "p">>, "Map">>,
      <<<<"s", "t", "r", "u", "c", "t">>, "Struct">>,
      <<<<"v", "a", "r", "i", "a", "n", "t">>, "Variant">>,
      <<<<"g", "e", "o", "g", "r", "a", "p", "h", "y">>, "Geography">> }

\* the additional mappings that match the database's type names
AdditionalMappings ==
    { <<<<"i", "n", "t">>, "Integer">>,
      <<<<"s", "m", "a", "l", "l", "i", "n", "t">>, "Short">>,
      <<<<"b", "y", "t", "e", "i", "n", "t">>, "Byte">>,
      <<<<"b", "i", "g", "i", "n", "t">>, "Long">>,
      <<KwNumber, "Decimal">>,
      <<KwNumeric, "Decimal">>,
      <<<<"o", "b", "j", "e", "c", "t">>, "Map">>,
      <<<<"a", "r", "r", "a", "y">>, "Array">> }

_DATA_TYPE_STRING_OBJECT_MAPPINGS == SubclassMappings \cup AdditionalMappings

MappingKeys == { e[1] : e \in _DATA_TYPE_STRING_OBJECT_MAPPINGS }
MappingGet(key) ==
    LET e == CHOOSE m \in _DATA_TYPE_STRING_OBJECT_MAPPINGS : m[1] = key IN e[2]

(***************************************************************************)
(* _DECIMAL_RE: start, spaces, one of numeric|number|decimal, spaces, an   *)
(* opening parenthesis, spaces, an (always empty) group of spaces, digits  *)
(* (group 3), spaces, a comma, spaces, digits (group 4), spaces, a closing *)
(* parenthesis, spaces, end.  Both digit groups may be empty, and the      *)
(* pattern is compiled without re.IGNORECASE.                              *)
(* Every repeated class is disjoint from the character that follows it, so *)
(* the greedy scan below decides the match without backtracking.           *)
(***************************************************************************)
RECURSIVE SkipSpace(_, _)
SkipSpace(s, i) == IF i <= Len(s) /\ IsSpace(s[i]) THEN SkipSpace(s, i + 1) ELSE i
RECURSIVE SkipDigits(_, _)
SkipDigits(s, i) == IF i <= Len(s) /\ IsDigit(s[i]) THEN SkipDigits(s, i + 1) ELSE i

StartsWithAt(s, i, w) == i + Len(w) - 1 <= Len(s) /\ SubSeq(s, i, i + Len(w) - 1) = w
CharAt(s, i, c) == i <= Len(s) /\ s[i] = c

\* the alternation (numeric|number|decimal), tried in order
DecimalKeywords == <<KwNumeric, KwNumber, KwDecimal>>

NoMatch == [matched |-> FALSE, group3 |-> <<>>, group4 |-> <<>>]

_DECIMAL_RE_match(s) ==
    LET i0 == SkipSpace(s, 1)
        ks == { j \in 1..3 : StartsWithAt(s, i0, DecimalKeywords[j]) }
    IN  IF ks = {} THEN NoMatch
        ELSE
        LET kw == DecimalKeywords[CHOOSE j \in ks : \A j2 \in ks : j <= j2]
            i1 == SkipSpace(s, i0 + Len(kw))
        IN  IF ~CharAt(s, i1, "(") THEN NoMatch
            ELSE
            LET i2 == SkipSpace(s, i1 + 1)
                i3 == SkipDigits(s, i2)
                i4 == SkipSpace(s, i3)
            IN  IF ~CharAt(s, i4, ",") THEN NoMatch
                ELSE
                LET i5 == SkipSpace(s, i4 + 1)
                    i6 == SkipDigits(s, i5)
                    i7 == SkipSpace(s, i6)
                IN  IF ~CharAt(s, i7, ")") THEN NoMatch
                    ELSE IF SkipSpace(s, i7 + 1) # Len(s) + 1 THEN NoMatch
                    ELSE [matched |-> TRUE,
                          group3 |-> SubSeq(s, i2, i3 - 1),
                          group4 |-> SubSeq(s, i5, i6 - 1)]

(***************************************************************************)
(* _get_number_precision_scale: None, a (precision, scale) tuple, or the   *)
(* ValueError int() raises on an empty group.                              *)
(***************************************************************************)
_get_number_precision_scale(s) ==
    LET decimal_matches == _DECIMAL_RE_match(s)
    IN  IF decimal_matches.matched
        THEN LET p == int(decimal_matches.group3)
                 sc == int(decimal_matches.group4)
             IN  IF IsError(p) THEN p
                 ELSE IF IsError(sc) THEN sc
                 ELSE [k |-> "tuple", precision |-> p.v, scale |-> sc.v]
        ELSE None

(***************************************************************************)
(* _type_string_to_type_object                                             *)
(***************************************************************************)
NotSupportedSuffix ==
    <<"'", " ", "i", "s", " ", "n", "o", "t", " ", "a", " ", "s", "u", "p", "p", "o",
      "r", "t", "e", "d", " ", "t", "y", "p", "e">>
Normalize(s) == lower(replace_spaces(s))

_type_string_to_type_object(s) ==
    LET precision_scale == _get_number_precision_scale(s)
    IN  IF IsError(precision_scale) THEN precision_scale
        ELSE IF precision_scale.k = "tuple"
        THEN DecimalType(precision_scale.precision, precision_scale.scale)
        ELSE LET normalized == Normalize(s)
             IN  IF normalized \in MappingKeys
                 THEN Construct(MappingGet(normalized))
                 ELSE [k |-> "ValueError",
                       msg |-> <<"'">> \o normalized \o NotSupportedSuffix]

(***************************************************************************)
(* Python values handed to _infer_type: a record whose field py is the     *)
(* value's type; containers carry their items, an object with a __UDT__    *)
(* attribute carries it in udt.                                            *)
(***************************************************************************)
Py(t) == [py |-> t]
PyNone == Py("NoneType")
PyList(items) == [py |-> "list", items |-> items]
PyTuple(items) == [py |-> "tuple", items |-> items]
PyDict(items) == [py |-> "dict", items |-> items]
PyArray(typecode) == [py |-> "array", typecode |-> typecode]
PyUdt(udt) == [py |-> "object", udt |-> udt]

\* _type_mappings: Python type -> DataType class
_type_mappings ==
    { <<"NoneType", "Null">>, <<"bool", "Boolean">>, <<"int", "Long">>,
      <<"float", "Float">>, <<"str", "String">>, <<"bytearray", "Binary">>,
      <<"Decimal", "Decimal">>, <<"date", "Date">>, <<"datetime", "Timestamp">>,
      <<"time", "Time">>, <<"bytes", "Binary">> }
_type_mappings_has(t) == \E e \in _type_mappings : e[1] = t
_type_mappings_get(t) == LET e == CHOOSE m \in _type_mappings : m[1] = t IN e[2]

\* _int_size_to_type: the integer class wide enough for `size` bits, or None
_int_size_to_type(size) ==
    IF size <= 8 THEN "Byte"
    ELSE IF size <= 16 THEN "Short"
    ELSE IF size <= 32 THEN "Integer"
    ELSE IF size <= 64 THEN "Long"
    ELSE "None"

\* ctypes.sizeof(...) * 8 of the array typecodes whose C width is the same on
\* every supported platform (b/B char, h/H short, i/I int, q/Q long long)
SignedTypecodes == {"b", "h", "i", "q"}
UnsignedTypecodes == {"B", "H", "I", "Q"}
CtypeBits(typecode) ==
    CASE typecode \in {"b", "B"} -> 8
      [] typecode \in {"h", "H"} -> 16
      [] typecode \in {"i", "I"} -> 32
      [] typecode \in {"q", "Q"} -> 64

\* _array_type_mappings: f, d, u, and the integer typecodes whose size maps
ArrayTypecodeClass(typecode) ==
    CASE typecode = "f" -> "Float"
      [] typecode = "d" -> "Double"
      [] typecode = "u" -> "String"
      [] typecode \in SignedTypecodes -> _int_size_to_type(CtypeBits(typecode))
      [] typecode \in UnsignedTypecodes -> _int_size_to_type(CtypeBits(typecode) + 1)
      [] OTHER -> "None"

InferDecimalPrecision == 38
InferDecimalScale == 18

UnsupportedType(what) == [k |-> "TypeError", msg |-> <<"not supported type:">> \o what]

\* the element of a list or tuple that _infer_type infers the array's type from
ElementInferredFrom(items) == items[1]

RECURSIVE _infer_type(_)
\* the dict branch: the first entry whose key and value are both not None
InferDict(items) ==
    LET ok == { i \in 1..Len(items) : items[i][1] # PyNone /\ items[i][2] # PyNone }
    IN  IF ok = {} THEN MapType(NullType, NullType)
        ELSE LET i == CHOOSE j \in ok : \A j2 \in ok : j <= j2
                 kt == _infer_type(items[i][1])
                 vt == _infer_type(items[i][2])
             IN  IF IsError(kt) THEN kt
                 ELSE IF IsError(vt) THEN vt
                 ELSE MapType(kt, vt)

\* the list/tuple branch
InferSequence(items) ==
    IF \E i \in 1..Len(items) : items[i] # PyNone
    THEN LET et == _infer_type(ElementInferredFrom(items))
         IN  IF IsError(et) THEN et ELSE ArrayType(et)
    ELSE ArrayType(NullType)

_infer_type(o) ==
    IF o = PyNone THEN NullType
    ELSE IF "udt" \in DOMAIN o THEN o.udt
    ELSE IF _type_mappings_has(o.py)
    THEN IF _type_mappings_get(o.py) = "Decimal"
         THEN DecimalType(InferDecimalPrecision, InferDecimalScale)
         ELSE Atomic(_type_mappings_get(o.py))
    ELSE IF o.py = "dict" THEN InferDict(o.items)
    ELSE IF o.py \in {"list", "tuple"} THEN InferSequence(o.items)
    ELSE IF o.py = "array"
    THEN IF ArrayTypecodeClass(o.typecode) # "None"
         THEN ArrayType(Atomic(ArrayTypecodeClass(o.typecode)))
         ELSE UnsupportedType(<<"array", o.typecode>>)
    ELSE UnsupportedType(<<o.py>>)

(***************************************************************************)
(* _infer_schema(row, names).  A field name is a string; a dict row holds  *)
(* pairs <<name, value>>; a Row or namedtuple is a tuple with _fields.     *)
(* `names` is the caller's list or None.                                   *)
(***************************************************************************)
PyRow(fields, items) == [py |-> "tuple", items |-> items, _fields |-> fields]

\* a name counting the positions from 0
PositionalNameFromZero(i) == <<"_">> \o int_to_str(i - 1)

\* f"_{i}"
PositionalName(i) == <<"_">> \o int_to_str(i)

\* zip(ks, vs): as long as the shorter of the two
zip(ks, vs) ==
    [i \in 1..(IF Len(ks) < Len(vs) THEN Len(ks) ELSE Len(vs)) |-> <<ks[i], vs[i]>>]

\* the caller's list of names
NameList(items) == [k |-> "list", items |-> items]

\* names if names else ["_1"]
NamesOrDefault(ns) ==
    IF ns # None /\ ns.items # <<>> THEN ns.items ELSE << <<"_", "1">> >>

\* row is None or (isinstance(row, (tuple, list, dict)) and not row)
IsEmptyRow(row) ==
    \/ row = PyNone
    \/ row.py \in {"tuple", "list", "dict"} /\ row.items = <<>>

\* getattr(row, "_fields", None) is truthy
HasRowFields(row) == "_fields" \in DOMAIN row /\ row._fields # <<>>

\* the branch of a list or tuple without _fields
IsPlainSequence(row) ==
    ~IsEmptyRow(row) /\ row.py \in {"tuple", "list"} /\ ~HasRowFields(row)

\* names.extend(f"_{i}" for i in range(len(names) + 1, len(row) + 1))
names_extend(items, n) ==
    items \o [j \in 1..(n - Len(items)) |-> PositionalName(Len(items) + j)]

\* the caller's list after the call: extend acts on the list object itself,
\* the assignment to names of the `names is None` branch is local
NamesAfter(row, ns) ==
    IF IsPlainSequence(row) /\ ns # None /\ Len(ns.items) < Len(row.items)
    THEN NameList(names_extend(ns.items, Len(row.items)))
    ELSE ns

\* the names the items of a plain sequence are zipped with
SequenceNames(row, ns) ==
    IF ns = None THEN [i \in 1..Len(row.items) |-> PositionalName(i)]
    ELSE NamesAfter(row, ns).items

CanNotInferSchema(row) ==
    [k |-> "TypeError", msg |-> <<"Can not infer schema for type:", row.py>>]

\* the shapes of row that _infer_schema has a branch for
IsKnownShape(row) ==
    IsEmptyRow(row) \/ row.py \in {"dict", "tuple", "list"} \/ _type_mappings_has(row.py)

\* the (name, value) pairs of a row of a known shape
SchemaItems(row, ns) ==
    IF IsEmptyRow(row) THEN zip(NamesOrDefault(ns), <<PyNone>>)
    ELSE IF row.py = "dict" THEN row.items
    ELSE IF row.py \in {"tuple", "list"}
    THEN IF HasRowFields(row) THEN zip(row._fields, row.items)
         ELSE zip(SequenceNames(row, ns), row.items)
    ELSE zip(NamesOrDefault(ns), <<row>>)

UnableToInfer(name) ==
    [k |-> "TypeError", msg |-> <<"Unable to infer the type of the field", name>>]

\* the loop over the items: the first field whose type can not be inferred
\* ends it
SchemaFields(items) ==
    LET types == [i \in 1..Len(items) |-> _infer_type(items[i][2])]
        bad == { i \in 1..Len(items) : IsError(types[i]) }
    IN  IF bad # {}
        THEN UnableToInfer(items[CHOOSE i \in bad : \A j \in bad : i <= j][1])
        ELSE StructType([i \in 1..Len(items) |-> StructField(items[i][1], types[i], TRUE)])

_infer_schema(row, ns) ==
    IF IsKnownShape(row) THEN SchemaFields(SchemaItems(row, ns))
    ELSE CanNotInferSchema(row)

(***************************************************************************)
(* _merge_type(a, b, name).  `name` is None or the text naming the place   *)
(* being merged; texts built with % and format are sequences of words.     *)
(***************************************************************************)
\* new_msg: the message, prefixed with the place when there is one
new_msg(name, msg) == IF name = None THEN msg ELSE name.s \o <<":">> \o msg
\* new_name: the place of field n
new_name(name, n) ==
    IF name = None THEN Str(<<"field", n>>) ELSE Str(<<"field", n, "in">> \o name.s)
\* "%s" % name
FormatName(name) == IF name = None THEN <<"None">> ELSE name.s
ElementName(name) == Str(<<"element in array">> \o FormatName(name))
KeyName(name) == Str(<<"key of map">> \o FormatName(name))
ValueName(name) == Str(<<"value of map">> \o FormatName(name))

CannotMerge(a, b, name) ==
    [k |-> "TypeError", msg |-> new_msg(name, <<"Cannot merge type", a.k, "and", b.k>>)]

\* the null-type branches: a is Null, or else b is
MergeNull(a, b) == IF a.k = "Null" THEN b ELSE a

\* nfs = {f.name: f.datatype for f in b.fields}: the last field of a name
\* gives its datatype, the first gives its place in the iteration order
nfs_has(bfields, n) == \E i \in 1..Len(bfields) : bfields[i].name = n
nfs_get(bfields, n) ==
    IF nfs_has(bfields, n)
    THEN LET is == { i \in 1..Len(bfields) : bfields[i].name = n }
         IN  bfields[CHOOSE i \in is : \A j \in is : j <= i].datatype
    ELSE NullType
IsFirstOfName(bfields, i) == \A j \in 1..(i - 1) : bfields[j].name # bfields[i].name
RECURSIVE nfs_keys(_, _)
nfs_keys(bfields, i) ==
    IF i > Len(bfields) THEN <<>>
    ELSE IF IsFirstOfName(bfields, i)
    THEN <<bfields[i].name>> \o nfs_keys(bfields, i + 1)
    ELSE nfs_keys(bfields, i + 1)

\* StructField(n, nfs[n]) for the names of nfs no merged field has
RECURSIVE AppendedFields(_, _, _)
AppendedFields(keys, bfields, afields) ==
    IF keys = <<>> THEN <<>>
    ELSE LET rest == AppendedFields(Tail(keys), bfields, afields)
         IN  IF \E i \in 1..Len(afields) : afields[i].name = Head(keys)
             THEN rest
             ELSE <<StructField(Head(keys), nfs_get(bfields, Head(keys)),
                                StructFieldDefaultNullable)>> \o rest

\* the nullable flag of a merged field: the constructor's default
MergedNullable(f) == StructFieldDefaultNullable

RECURSIVE _merge_type(_, _, _)

\* the list comprehension over a.fields; the first failing field raises
MergeStruct(a, b, name) ==
    LET merged == [i \in 1..Len(a.fields) |->
                     _merge_type(a.fields[i].datatype,
                                 nfs_get(b.fields, a.fields[i].name),
                                 new_name(name, a.fields[i].name))]
        bad == { i \in 1..Len(merged) : IsError(merged[i]) }
    IN  IF bad # {}
        THEN merged[CHOOSE i \in bad : \A j \in bad : i <= j]
        ELSE StructType(
               [i \in 1..Len(a.fields) |->
                  StructField(a.fields[i].name, merged[i], MergedNullable(a.fields[i]))]
               \o AppendedFields(nfs_keys(b.fields, 1), b.fields, a.fields))

\* a MergeArray that keeps a's element type when the elements do not merge
MergeArrayIgnoringConflict(a, b, name) ==
    LET et == _merge_type(a.element_type, b.element_type, ElementName(name))
    IN  IF IsError(et) THEN a ELSE ArrayType(et)

MergeArray(a, b, name) ==
    LET et == _merge_type(a.element_type, b.element_type, ElementName(name))
    IN  IF IsError(et) THEN et ELSE ArrayType(et)

MergeMap(a, b, name) ==
    LET kt == _merge_type(a.key_type, b.key_type, KeyName(name))
    IN  IF IsError(kt) THEN kt
        ELSE LET vt == _merge_type(a.value_type, b.value_type, ValueName(name))
             IN  IF IsError(vt) THEN vt ELSE MapType(kt, vt)

\* two non-null types of the same class that is no Struct, Array or Map
MergeSame(a, b) == a

_merge_type(a, b, name) ==
    IF a.k = "Null" \/ b.k = "Null" THEN MergeNull(a, b)
    ELSE IF a.k # b.k THEN CannotMerge(a, b, name)
    ELSE IF a.k = "Struct" THEN MergeStruct(a, b, name)
    ELSE IF a.k = "Array" THEN MergeArray(a, b, name)
    ELSE IF a.k = "Map" THEN MergeMap(a, b, name)
    ELSE MergeSame(a, b)

(***************************************************************************)
(* The mock aggregate-function registry (snowflake.snowpark.mock           *)
(* .mock_functions): every aggregate name maps to an implementation, at    *)
(* first to a stub that raises NotImplementedError.                        *)
(***************************************************************************)
Stub == "not_implemented_stub"
AggregateNames == {"stddev", "stddev_pop", "approx_percentile"}
Implementations == {"mock_stddev", "mock_stddev_pop", "mock_approx_percentile"}

\* what an implementation returns: ColumnEmulator(data=...)
ImplResult(impl) ==
    CASE impl = "mock_stddev" -> 123
      [] impl = "mock_stddev_pop" -> 456
      [] impl = "mock_approx_percentile" -> 789

InitialRegistry == [n \in AggregateNames |-> Stub]

\* a registration that keeps an implementation already registered
register_keep_first(reg, name, impl) ==
    IF reg[name] = Stub THEN [reg EXCEPT ![name] = impl] ELSE reg

\* register_func_implementation(name, impl): unconditional overwrite
register_func_implementation(reg, name, impl) == [reg EXCEPT ![name] = impl]

\* calling the registered function of `name`
CallAggregate(reg, name) ==
    IF reg[name] = Stub
    THEN [k |-> "NotImplementedError", name |-> name]
    ELSE [k |-> "value", v |-> ImplResult(reg[name])]

\* df.select(f1(...), f2(...)).collect(): the aggregates are computed in the
\* order requested; the first one that raises ends the statement
SelectAggregates(reg, requested) ==
    LET results == [i \in 1..Len(requested) |-> CallAggregate(reg, requested[i])]
        bad == { i \in 1..Len(results) : IsError(results[i]) }
    IN  IF bad # {}
        THEN results[CHOOSE i \in bad : \A j \in bad : i <= j]
        ELSE [k |-> "rows", rows |-> << [i \in 1..Len(requested) |-> results[i].v] >>]

(***************************************************************************)
(* The group-by engine: execute_aggregate(rows, group_keys,                *)
(* aggregate_specs).  A row is a tuple of column values, a group key a     *)
(* column position, an aggregate spec a function name with its input       *)
(* columns.                                                                *)
(***************************************************************************)
\* aggregates that work without any registration: sum("q")
BuiltinAggregates == {"sum"}

AggregateSpec(name, columns) == [name |-> name, columns |-> columns]

\* the tuple of group-key values of a row, in the order the keys were given
KeyOf(r, keys) == [i \in 1..Len(keys) |-> r[keys[i]]]

SeqContains(s, x) == \E i \in 1..Len(s) : s[i] = x

\* the distinct key tuples, the latest found first
RECURSIVE DistinctKeysLatestFirst(_, _, _)
DistinctKeysLatestFirst(rs, keys, seen) ==
    IF rs = <<>> THEN seen
    ELSE LET key == KeyOf(Head(rs), keys)
         IN  DistinctKeysLatestFirst(Tail(rs), keys,
                          IF SeqContains(seen, key) THEN seen ELSE <<key>> \o seen)

\* the distinct key tuples, each at the place of its first occurrence
RECURSIVE DistinctKeys(_, _, _)
DistinctKeys(rs, keys, seen) ==
    IF rs = <<>> THEN seen
    ELSE LET key == KeyOf(Head(rs), keys)
         IN  DistinctKeys(Tail(rs), keys,
                          IF SeqContains(seen, key) THEN seen ELSE Append(seen, key))

RowsOfKey(rs, keys, key) ==
    LET Test(r) == KeyOf(r, keys) = key IN SelectSeq(rs, Test)

\* Unpartitioned -> Partitioned: one partition holding all rows when no group
\* key is given, else one partition per distinct key tuple
Partition(rs, keys) ==
    IF keys = <<>> THEN << [key |-> <<>>, rows |-> rs] >>
    ELSE LET dk == DistinctKeys(rs, keys, <<>>)
         IN  [i \in 1..Len(dk) |-> [key |-> dk[i], rows |-> RowsOfKey(rs, keys, dk[i])]]

\* the column view restricted to a partition
ColumnView(rs, c) == [i \in 1..Len(rs) |-> rs[i][c]]

RECURSIVE builtin_sum(_)
builtin_sum(column) ==
    IF column = <<>> THEN 0 ELSE Head(column) + builtin_sum(Tail(column))

\* one aggregate over one partition, dispatched to the registry
Dispatch(reg, spec, part) ==
    IF spec.name \in BuiltinAggregates
    THEN [k |-> "value", v |-> builtin_sum(ColumnView(part.rows, spec.columns[1]))]
    ELSE CallAggregate(reg, spec.name)

\* the aggregates of one partition in request order, a failed one left out
AggregatePartitionSkippingFailures(reg, specs, part) ==
    LET results == [i \in 1..Len(specs) |-> Dispatch(reg, specs[i], part)]
        Ok(r) == ~IsError(r)
        good == SelectSeq(results, Ok)
    IN  [k |-> "values", vs |-> [i \in 1..Len(good) |-> good[i].v]]

\* the aggregates of one partition in request order; the first failure is
\* propagated unchanged
AggregatePartition(reg, specs, part) ==
    LET results == [i \in 1..Len(specs) |-> Dispatch(reg, specs[i], part)]
        bad == { i \in 1..Len(results) : IsError(results[i]) }
    IN  IF bad # {}
        THEN results[CHOOSE i \in bad : \A j \in bad : i <= j]
        ELSE [k |-> "values", vs |-> [i \in 1..Len(specs) |-> results[i].v]]

\* one output row: the key values, then the aggregate results
ComposeRow(key, vs) == key \o vs

(***************************************************************************)
(* Inputs.                                                                 *)
(***************************************************************************)
SeqsUpTo(S, n) == UNION { [1..m -> S] : m \in 0..n }

AtomicClasses ==
    {"Null", "Boolean", "Byte", "Short", "Integer", "Long", "Float", "Double",
     "String", "Binary", "Date", "Time", "Timestamp", "Variant", "Geography"}

\* the types handed to convert_to_sf_type
DecimalTypes ==
    { DecimalType(p, sc) : p \in 0..MaxPrecision, sc \in 0..MaxPrecision }
    \cup { DecimalType(InferDecimalPrecision, InferDecimalScale),
           DecimalType(DefaultDecimalPrecision, DefaultDecimalScale) }
OtherTypes ==
    { Atomic(c) : c \in AtomicClasses }
    \cup { Construct("Array"), Construct("Map"), Construct("Struct"),
           ArrayType(LongType), MapType(StringType, LongType) }
ConvertTypes == DecimalTypes \cup OtherTypes

\* the type strings handed to _type_string_to_type_object, each described by
\* how the caller wrote it
WsChars == {" ", "\t"}
WsRuns == SeqsUpTo(WsChars, MaxWs)
Cases == {"lower", "upper", "capitalized"}
ApplyCase(c, w) ==
    CASE c = "lower" -> w
      [] c = "upper" -> upper(w)
      [] c = "capitalized" -> capitalize(w)

ParamValues == {0, 1, 2, 5, 10, 38}
DigitGroups ==
    { [some |-> TRUE, v |-> n] : n \in ParamValues } \cup { [some |-> FALSE, v |-> 0] }
GroupText(g) == IF g.some THEN int_to_str(g.v) ELSE <<>>

DecimalStrings ==
    [form : {"decimal"}, keyword : {KwNumeric, KwNumber, KwDecimal}, case : Cases,
     lead : WsRuns, inner : WsRuns, trail : WsRuns, p : DigitGroups, s : DigitGroups]

KwFrobnicate == <<"f", "r", "o", "b", "n", "i", "c", "a", "t", "e">>
NameWords == MappingKeys \cup {KwDecimal, KwFrobnicate}
NameStrings ==
    [form : {"name"}, keyword : NameWords, case : Cases,
     lead : WsRuns, inner : {<<>>, <<" ">>}, trail : WsRuns]

TypeStrings == DecimalStrings \cup NameStrings

BuildTypeString(g) ==
    IF g.form = "decimal"
    THEN g.lead \o ApplyCase(g.case, g.keyword) \o g.inner \o <<"(">> \o g.inner
         \o GroupText(g.p) \o g.inner \o <<",">> \o g.inner \o GroupText(g.s)
         \o g.inner \o <<")">> \o g.trail
    ELSE LET w == ApplyCase(g.case, g.keyword)
         IN  g.lead \o SubSeq(w, 1, 2) \o g.inner \o SubSeq(w, 3, Len(w)) \o g.trail

\* the values handed to _infer_type
Scalars == { Py(e[1]) : e \in _type_mappings }
Elements ==
    { PyNone, Py("int"), Py("str"), Py("Decimal"), Py("set"),
      PyList(<<PyNone, Py("int")>>) }
DictEntries == { <<key, value>> : key \in {PyNone, Py("str")},
                                  value \in {PyNone, Py("int"), Py("str")} }
Typecodes == {"f", "d", "u"} \cup SignedTypecodes \cup UnsignedTypecodes
InferValues ==
    Scalars
    \cup { PyList(items) : items \in SeqsUpTo(Elements, MaxItems) }
    \cup { PyTuple(items) : items \in SeqsUpTo(Elements, MaxItems) }
    \cup { PyDict(items) : items \in SeqsUpTo(DictEntries, MaxItems) }
    \cup { PyArray(c) : c \in Typecodes }
    \cup { PyUdt(StringType), Py("set") }

(***************************************************************************)
(* Spec: the type-string codec and type inference.  The functions are     *)
(* pure, so a behaviour is one call (for the round trip, two) on inputs    *)
(* chosen freely.                                                          *)
(***************************************************************************)
MergeIdle == hist = <<>> /\ prev = None /\ acc = None
RegistryIdle ==
    /\ registry = InitialRegistry
    /\ registered = <<>>
    /\ executed = <<>>
    /\ outcome = None
SchemaIdle == names = None /\ given_names = None /\ ncalls = 0 /\ last_call = None
EngineIdle ==
    /\ rows = <<>>
    /\ group_keys = <<>>
    /\ aggregate_specs = <<>>
    /\ stage = "Idle"
    /\ partitions = <<>>
    /\ aggregated = <<>>
    /\ output = <<>>
    /\ raised = None

Init ==
    /\ pc = "start"
    /\ datatype = None
    /\ type_str = None
    /\ given = None
    /\ obj = None
    /\ result = None
    /\ MergeIdle
    /\ RegistryIdle
    /\ SchemaIdle
    /\ EngineIdle

\* convert_to_sf_type(t), t a DecimalType: the parametrized branch
ConvertDecimal ==
    \E t \in DecimalTypes :
        /\ pc = "start"
        /\ pc' = "converted"
        /\ datatype' = t
        /\ type_str' = convert_to_sf_type(t)
        /\ given' = None
        /\ obj' = None
        /\ result' = None
        /\ UNCHANGED <<merge_vars, registry_vars, schema_vars, engine_vars>>

\* convert_to_sf_type(t), t of any other class: the fixed names
Convert ==
    \E t \in OtherTypes :
        /\ pc = "start"
        /\ pc' = "converted"
        /\ datatype' = t
        /\ type_str' = convert_to_sf_type(t)
        /\ given' = None
        /\ obj' = None
        /\ result' = None
        /\ UNCHANGED <<merge_vars, registry_vars, schema_vars, engine_vars>>

\* _type_string_to_type_object on the string convert_to_sf_type returned
ParseConverted ==
    /\ pc = "converted"
    /\ type_str.k = "str"
    /\ pc' = "roundtrip"
    /\ result' = _type_string_to_type_object(type_str.s)
    /\ UNCHANGED <<datatype, type_str, given, obj, merge_vars, registry_vars, schema_vars, engine_vars>>

\* _type_string_to_type_object on a string the caller wrote
Parse ==
    \E g \in TypeStrings :
        /\ pc = "start"
        /\ pc' = "parsed"
        /\ datatype' = None
        /\ type_str' = Str(BuildTypeString(g))
        /\ given' = g
        /\ obj' = None
        /\ result' = _type_string_to_type_object(BuildTypeString(g))
        /\ UNCHANGED <<merge_vars, registry_vars, schema_vars, engine_vars>>

\* _infer_type(v)
Infer ==
    \E v \in InferValues :
        /\ pc = "start"
        /\ pc' = "inferred"
        /\ datatype' = None
        /\ type_str' = None
        /\ given' = None
        /\ obj' = v
        /\ result' = _infer_type(v)
        /\ UNCHANGED <<merge_vars, registry_vars, schema_vars, engine_vars>>

Next == ConvertDecimal \/ Convert \/ ParseConverted \/ Parse \/ Infer

Spec == Init /\ [][Next]_vars

(***************************************************************************)
(* MergeSpec: the schemas of a batch of rows are reconciled by folding     *)
(* _merge_type over them, acc = _merge_type(acc, t); an exception ends the *)
(* fold.                                                                   *)
(***************************************************************************)
MergeAtoms == {NullType, LongType, StringType, DecimalType(10, 2), DecimalType(5, 1)}
FieldTypes == {NullType, LongType, StringType}
FieldNames == {"x", "y"}
ContainerTypes ==
    { ArrayType(e) : e \in FieldTypes }
    \cup { MapType(LongType, v) : v \in FieldTypes }
    \cup { MapType(kt, LongType) : kt \in FieldTypes }
OneFieldStructs ==
    { StructType(<<StructField(n, d, nl)>>) :
        n \in FieldNames,
        d \in FieldTypes \cup {ArrayType(LongType), ArrayType(StringType)},
        nl \in BOOLEAN }
TwoFieldStructs ==
    { StructType(<<StructField(ns[1], d1, TRUE), StructField(ns[2], d2, TRUE)>>) :
        ns \in {<<"x", "y">>, <<"y", "x">>, <<"x", "x">>},
        d1 \in {NullType, LongType}, d2 \in {NullType, LongType} }
NestedTypes ==
    { ArrayType(StructType(<<StructField("x", d, TRUE)>>)) : d \in {LongType, StringType} }
    \cup { MapType(LongType, ArrayType(d)) : d \in {LongType, StringType} }
MergeTypes ==
    MergeAtoms \cup ContainerTypes \cup {StructType(<<>>)} \cup OneFieldStructs
    \cup TwoFieldStructs \cup NestedTypes

CodecIdle ==
    /\ pc = "start"
    /\ datatype = None
    /\ type_str = None
    /\ given = None
    /\ obj = None
    /\ result = None

MergeInit == CodecIdle /\ MergeIdle /\ RegistryIdle /\ SchemaIdle /\ EngineIdle

\* the first schema of the batch
MergeFirst ==
    \E t \in MergeTypes :
        /\ hist = <<>>
        /\ hist' = <<t>>
        /\ prev' = None
        /\ acc' = t
        /\ UNCHANGED <<codec_vars, registry_vars, schema_vars, engine_vars>>

\* acc = _merge_type(acc, t)
MergeNext ==
    \E t \in MergeTypes :
        /\ hist # <<>>
        /\ Len(hist) < MaxChain
        /\ ~IsError(acc)
        /\ hist' = Append(hist, t)
        /\ prev' = acc
        /\ acc' = _merge_type(acc, t, None)
        /\ UNCHANGED <<codec_vars, registry_vars, schema_vars, engine_vars>>

MergeStep == MergeFirst \/ MergeNext

MergeSpec == MergeInit /\ [][MergeStep]_vars

(***************************************************************************)
(* RegistrySpec: registrations and executions of aggregates, in any order. *)
(* `registered` is the history of the register calls.                      *)
(***************************************************************************)
Requests == { requested \in SeqsUpTo(AggregateNames, MaxRequest) : requested # <<>> }

RegistryInit == CodecIdle /\ MergeIdle /\ RegistryIdle /\ SchemaIdle /\ EngineIdle

Register ==
    \E n \in AggregateNames, impl \in Implementations :
        /\ Len(registered) < MaxRegistrations
        /\ registry' = register_func_implementation(registry, n, impl)
        /\ registered' = Append(registered, <<n, impl>>)
        /\ executed' = <<>>
        /\ outcome' = None
        /\ UNCHANGED <<codec_vars, merge_vars, schema_vars, engine_vars>>

Execute ==
    \E requested \in Requests :
        /\ executed' = requested
        /\ outcome' = SelectAggregates(registry, requested)
        /\ UNCHANGED <<registry, registered, codec_vars, merge_vars, schema_vars, engine_vars>>

RegistryNext == Register \/ Execute

RegistrySpec == RegistryInit /\ [][RegistryNext]_vars

(***************************************************************************)
(* EngineSpec: aggregates are registered, then one execute_aggregate runs  *)
(* through Unpartitioned, Partitioned, PerGroupAggregated and RowsEmitted; *)
(* a NotImplementedError of the registry ends it in Failed.                *)
(***************************************************************************)
\* rows of three columns m, n, q
RowValues == { <<"b", "c", 1>>, <<"a", "c", 2>>, <<"b", "d", 4>> }
InputRows == { rs \in SeqsUpTo(RowValues, MaxRows) : rs # <<>> }
GroupKeys == { <<>>, <<1>>, <<2>>, <<1, 2>>, <<2, 1>> }
EngineNames == {"sum", "stddev", "stddev_pop"}
EngineRequests ==
    { [i \in 1..Len(ns) |-> AggregateSpec(ns[i], <<3>>)] :
        ns \in { x \in SeqsUpTo(EngineNames, MaxRequest) : x # <<>> } }

\* the implementation a test registers for a name
MockOf(n) ==
    CASE n = "stddev" -> "mock_stddev"
      [] n = "stddev_pop" -> "mock_stddev_pop"
      [] n = "approx_percentile" -> "mock_approx_percentile"

EngineInit == CodecIdle /\ MergeIdle /\ RegistryIdle /\ SchemaIdle /\ EngineIdle

\* register_func_implementation(n, mock) before the statement is executed
RegisterMock ==
    \E n \in AggregateNames :
        /\ stage = "Idle"
        /\ registry[n] = Stub
        /\ registry' = register_func_implementation(registry, n, MockOf(n))
        /\ registered' = Append(registered, <<n, MockOf(n)>>)
        /\ UNCHANGED <<executed, outcome, codec_vars, merge_vars, schema_vars, engine_vars>>

\* execute_aggregate is called
Submit ==
    \E rs \in InputRows, keys \in GroupKeys, specs \in EngineRequests :
        /\ stage = "Idle"
        /\ stage' = "Unpartitioned"
        /\ rows' = rs
        /\ group_keys' = keys
        /\ aggregate_specs' = specs
        /\ UNCHANGED <<partitions, aggregated, output, raised,
                       codec_vars, merge_vars, registry_vars, schema_vars>>

PartitionRows ==
    /\ stage = "Unpartitioned"
    /\ stage' = "Partitioned"
    /\ partitions' = Partition(rows, group_keys)
    /\ UNCHANGED <<rows, group_keys, aggregate_specs, aggregated, output, raised,
                   codec_vars, merge_vars, registry_vars, schema_vars>>

\* the aggregates of the next partition; a failure ends the execution with
\* nothing emitted
AggregateGroup ==
    /\ stage = "Partitioned"
    /\ Len(aggregated) < Len(partitions)
    /\ LET part == partitions[Len(aggregated) + 1]
           r == AggregatePartition(registry, aggregate_specs, part)
       IN  IF IsError(r)
           THEN /\ stage' = "Failed"
                /\ raised' = r
                /\ UNCHANGED aggregated
           ELSE /\ aggregated' = Append(aggregated, ComposeRow(part.key, r.vs))
                /\ stage' = IF Len(aggregated) + 1 = Len(partitions)
                            THEN "PerGroupAggregated" ELSE "Partitioned"
                /\ UNCHANGED raised
    /\ UNCHANGED <<rows, group_keys, aggregate_specs, partitions, output,
                   codec_vars, merge_vars, registry_vars, schema_vars>>

EmitRows ==
    /\ stage = "PerGroupAggregated"
    /\ stage' = "RowsEmitted"
    /\ output' = aggregated
    /\ UNCHANGED <<rows, group_keys, aggregate_specs, partitions, aggregated, raised,
                   codec_vars, merge_vars, registry_vars, schema_vars>>

EngineNext == RegisterMock \/ Submit \/ PartitionRows \/ AggregateGroup \/ EmitRows

EngineSpec == EngineInit /\ [][EngineNext]_vars

(***************************************************************************)
(* SchemaSpec: a caller makes one list of names (or none) and infers the   *)
(* schemas of several rows with it, as when the rows of a batch are        *)
(* inferred one by one.  given_names is the list as the caller made it,    *)
(* last_call the latest call: its row, the list it was handed, its result. *)
(***************************************************************************)
FieldNameStrings == { <<"a">>, <<"b">> }
CallerNames ==
    {None} \cup { NameList(ns) : ns \in SeqsUpTo(FieldNameStrings, MaxNames) }
RowElements == { PyNone, Py("int"), Py("set") }
DictRows ==
    { PyDict(<<>>),
      PyDict(<< <<<<"a">>, Py("int")>> >>),
      PyDict(<< <<<<"b">>, Py("int")>>, <<<<"a">>, PyNone>> >>),
      PyDict(<< <<<<"a">>, Py("set")>> >>) }
SchemaRows ==
    { PyNone, Py("int"), Py("str"), Py("set") }
    \cup { PyList(items) : items \in SeqsUpTo(RowElements, MaxItems) }
    \cup { PyTuple(items) : items \in SeqsUpTo(RowElements, MaxItems) }
    \cup DictRows
    \cup { PyRow(<< <<"b">>, <<"a">> >>, <<Py("int"), PyNone>>) }

SchemaInit ==
    /\ CodecIdle /\ MergeIdle /\ RegistryIdle /\ EngineIdle
    /\ names \in CallerNames
    /\ given_names = names
    /\ ncalls = 0
    /\ last_call = None

\* _infer_schema(row, names)
InferSchema ==
    \E row \in SchemaRows :
        /\ ncalls < MaxCalls
        /\ ncalls' = ncalls + 1
        /\ last_call' = [k |-> "call", row |-> row, names |-> names,
                         result |-> _infer_schema(row, names)]
        /\ names' = NamesAfter(row, names)
        /\ UNCHANGED <<given_names, codec_vars, merge_vars, registry_vars, engine_vars>>

SchemaNext == InferSchema

SchemaSpec == SchemaInit /\ [][SchemaNext]_vars

(***************************************************************************)
(* Properties of the codec and of type inference (checked under Spec).     *)
(***************************************************************************)
\* the variants of the round trip, each with its canonical parameters
CanonicalTypes ==
    { Atomic(c) : c \in AtomicClasses }
    \cup { Construct("Array"), Construct("Map") }
    \cup DecimalTypes

\* C1: round trip of the type-string codec: for every concrete DataType
\* variant t with canonical parameters (Struct excluded),
\* _type_string_to_type_object(convert_to_sf_type(t)) returns a type equal to
\* t, a Decimal's precision and scale included.
C1_RoundTrip ==
    (pc = "roundtrip" /\ datatype \in CanonicalTypes) => result = datatype

\* the first element of a sequence that is not None
FirstNonNull(items) ==
    items[CHOOSE i \in 1..Len(items) :
            items[i] # PyNone /\ \A j \in 1..(i - 1) : items[j] = PyNone]

\* C2: for every list or tuple, _infer_type returns Array(T) with T the
\* inferred type of the first element that is not None, and Array(Null) when
\* the sequence is empty or holds only None.
C2_SequenceInference ==
    (pc = "inferred" /\ obj.py \in {"list", "tuple"}) =>
        IF \A i \in 1..Len(obj.items) : obj.items[i] = PyNone
        THEN result = ArrayType(NullType)
        ELSE LET T == _infer_type(FirstNonNull(obj.items))
             IN  ~IsError(T) => result = ArrayType(T)

\* C8: every type string made of optional leading and trailing whitespace, one
\* of numeric, number, decimal in any letter case, "(", digits p, ",", digits
\* s, ")" with arbitrary interior whitespace parses to Decimal(p, s).
C8_ParametrizedDecimal ==
    (pc = "parsed" /\ given.form = "decimal" /\ given.p.some /\ given.s.some) =>
        result = DecimalType(given.p.v, given.s.v)

\* C9: a type string that is neither a parametrized decimal nor, once
\* normalized, a key of the name table is rejected with the unknown-type-string
\* error, whose message contains the string exactly as the caller passed it;
\* no default type is returned.
C9_UnknownTypeString ==
    (pc = "parsed" /\ given.form = "name" /\ Normalize(type_str.s) \notin MappingKeys) =>
        /\ result.k = "ValueError"
        /\ Contains(result.msg, type_str.s)

(***************************************************************************)
(* Properties of _merge_type (checked under MergeSpec).  In a state with   *)
(* at least two schemas folded, acc = _merge_type(prev, Last).             *)
(***************************************************************************)
Merged == Len(hist) >= 2
Last == hist[Len(hist)]
SameOutcome(r1, r2) == (IsError(r1) /\ IsError(r2)) \/ r1 = r2

\* C3: merge idempotence: _merge_type(t, t) succeeds and returns a type equal
\* to t, with the same field names, order, datatypes and nullability.
C3_MergeIdempotent ==
    (Merged /\ Last = prev) => acc = prev

\* C4: merge is commutative: _merge_type(a, b) and _merge_type(b, a) either
\* both fail or both return equal types.
C4_MergeCommutative ==
    Merged => SameOutcome(acc, _merge_type(Last, prev, None))

\* a merged with the merge of b and c; a failure of the inner merge is the outcome
MergeRight(a, b, c) ==
    LET bc == _merge_type(b, c, None)
    IN  IF IsError(bc) THEN bc ELSE _merge_type(a, bc, None)

\* C5: merge is associative: _merge_type(_merge_type(a, b), c) and
\* _merge_type(a, _merge_type(b, c)) either both fail or both return equal
\* types, the order of Struct fields included.
C5_MergeAssociative ==
    /\ Len(hist) = 3 => SameOutcome(acc, MergeRight(hist[1], hist[2], hist[3]))
    /\ (Len(hist) = 2 /\ IsError(acc)) =>
          \A c \in MergeTypes : IsError(MergeRight(hist[1], hist[2], c))

HasFieldNamed(t, n) == \E i \in 1..Len(t.fields) : t.fields[i].name = n
KeepsField(r, f) ==
    \E i \in 1..Len(r.fields) :
        r.fields[i].name = f.name /\ r.fields[i].datatype = f.datatype

\* C6: Null absorption: _merge_type(Null, t) returns t and _merge_type(t, Null)
\* returns t, without error; within a Struct merge a field present in only one
\* of the two structs keeps its own datatype.
C6_NullAbsorption ==
    Merged =>
        /\ prev = NullType => acc = Last
        /\ Last = NullType => acc = prev
        /\ (prev.k = "Struct" /\ Last.k = "Struct" /\ ~IsError(acc)) =>
              /\ \A i \in 1..Len(prev.fields) :
                    ~HasFieldNamed(Last, prev.fields[i].name) =>
                        /\ acc.fields[i].name = prev.fields[i].name
                        /\ acc.fields[i].datatype = prev.fields[i].datatype
              /\ \A j \in 1..Len(Last.fields) :
                    ~HasFieldNamed(prev, Last.fields[j].name) =>
                        KeepsField(acc, Last.fields[j])

\* the datatype a merge pairs with a's field named n: that of b's last field
\* of that name, Null when b has none
PairedWith(b, n) ==
    IF HasFieldNamed(b, n)
    THEN LET is == { i \in 1..Len(b.fields) : b.fields[i].name = n }
         IN  b.fields[CHOOSE i \in is : \A j \in is : j <= i].datatype
    ELSE NullType

\* whether merging a and b reaches two types of different classes, neither Null
RECURSIVE Conflicts(_, _)
Conflicts(a, b) ==
    /\ a.k # "Null"
    /\ b.k # "Null"
    /\ \/ a.k # b.k
       \/ /\ a.k = "Struct"
          /\ b.k = "Struct"
          /\ \E i \in 1..Len(a.fields) :
                Conflicts(a.fields[i].datatype, PairedWith(b, a.fields[i].name))
       \/ /\ a.k = "Array"
          /\ b.k = "Array"
          /\ Conflicts(a.element_type, b.element_type)
       \/ /\ a.k = "Map"
          /\ b.k = "Map"
          /\ \/ Conflicts(a.key_type, b.key_type)
             \/ Conflicts(a.value_type, b.value_type)

\* the first conflict the merge of a and b reaches: the steps leading to it,
\* outermost first, and the two classes found there
Step(kind, n) == [step |-> kind, name |-> n]
RECURSIVE ConflictAt(_, _)
Under(s, a, b) == LET c == ConflictAt(a, b) IN [c EXCEPT !.path = <<s>> \o @]
ConflictAt(a, b) ==
    IF a.k # b.k THEN [path |-> <<>>, left |-> a.k, right |-> b.k]
    ELSE IF a.k = "Struct"
    THEN LET bad == { i \in 1..Len(a.fields) :
                        Conflicts(a.fields[i].datatype, PairedWith(b, a.fields[i].name)) }
             i == CHOOSE j \in bad : \A j2 \in bad : j <= j2
         IN  Under(Step("field", a.fields[i].name),
                   a.fields[i].datatype, PairedWith(b, a.fields[i].name))
    ELSE IF a.k = "Array"
    THEN Under(Step("element", ""), a.element_type, b.element_type)
    ELSE IF Conflicts(a.key_type, b.key_type)
    THEN Under(Step("key", ""), a.key_type, b.key_type)
    ELSE Under(Step("value", ""), a.value_type, b.value_type)

\* the text naming a place: the steps are applied outermost first, each new
\* text holding the text so far
RECURSIVE PlaceText(_, _, _)
PlaceText(path, top, text) ==
    IF path = <<>> THEN text
    ELSE LET s == Head(path)
             sofar == IF top THEN <<"None">> ELSE text
             new == CASE s.step = "field" ->
                            IF top THEN <<"field", s.name>>
                            ELSE <<"field", s.name, "in">> \o text
                      [] s.step = "element" -> <<"element in array">> \o sofar
                      [] s.step = "key" -> <<"key of map">> \o sofar
                      [] s.step = "value" -> <<"value of map">> \o sofar
         IN  PlaceText(Tail(path), FALSE, new)

ConflictMessage(c) ==
    LET base == <<"Cannot merge type", c.left, "and", c.right>>
    IN  IF c.path = <<>> THEN base
        ELSE PlaceText(c.path, TRUE, <<>>) \o <<":">> \o base

\* C7: a type conflict is an error at every nesting depth: whenever the merge
\* reaches two types of different classes, neither Null (at top level, as a
\* same-named Struct field, an Array element, a Map key or a Map value), the
\* whole merge fails with a TypeError and returns no type, and the message
\* names the path to the offending position.
C7_ConflictIsError ==
    (Merged /\ Conflicts(prev, Last)) =>
        /\ acc.k = "TypeError"
        /\ acc.msg = ConflictMessage(ConflictAt(prev, Last))

\* a merge that failed on a conflict two levels down
C7_Witness ==
    /\ Merged
    /\ Conflicts(prev, Last)
    /\ Len(ConflictAt(prev, Last).path) >= 2
    /\ acc.k = "TypeError"

(***************************************************************************)
(* Properties of the registry (checked under RegistrySpec).                *)
(***************************************************************************)
WasRegistered(n) == \E i \in 1..Len(registered) : registered[i][1] = n
MostRecent(n) ==
    LET is == { i \in 1..Len(registered) : registered[i][1] = n }
    IN  registered[CHOOSE i \in is : \A j \in is : j <= i][2]

\* C10: registry last-write-wins: after any sequence of register calls,
\* executing an aggregate named n raises NotImplementedError if n was never
\* registered, and otherwise calls the most recently registered implementation
\* of n and returns its result; registering one name never changes the outcome
\* for another name.
C10_LastWriteWins ==
    /\ \A n \in AggregateNames :
          registry[n] = IF WasRegistered(n) THEN MostRecent(n) ELSE Stub
    /\ executed # <<>> =>
          IF \E i \in 1..Len(executed) : ~WasRegistered(executed[i])
          THEN outcome.k = "NotImplementedError"
          ELSE outcome = [k |-> "rows",
                          rows |-> << [i \in 1..Len(executed) |->
                                         ImplResult(MostRecent(executed[i]))] >>]

\* stddev registered twice, stddev_pop never: stddev runs its second
\* implementation, and a request that includes stddev_pop still raises
C10_Witness ==
    /\ Len(registered) = 2
    /\ registered[1] = <<"stddev", "mock_stddev_pop">>
    /\ registered[2] = <<"stddev", "mock_stddev">>
    /\ executed = <<"stddev">>
    /\ outcome = [k |-> "rows", rows |-> << <<123>> >>]

\* every Decimal in t has precision >= scale >= 0
RECURSIVE DecimalsWellFormed(_)
DecimalsWellFormed(t) ==
    CASE t.k = "Decimal" -> t.precision >= t.scale /\ t.scale >= 0
      [] t.k = "Array" -> DecimalsWellFormed(t.element_type)
      [] t.k = "Map" -> DecimalsWellFormed(t.key_type) /\ DecimalsWellFormed(t.value_type)
      [] t.k = "Struct" ->
            \A i \in 1..Len(t.fields) : DecimalsWellFormed(t.fields[i].datatype)
      [] OTHER -> TRUE

\* C14: every Decimal type returned by _type_string_to_type_object or
\* _infer_type satisfies precision >= scale >= 0; a parametrized decimal string
\* whose scale exceeds its precision, or whose digit groups are empty, yields no
\* Decimal violating this.
C14_DecimalWellFormed ==
    (pc \in {"parsed", "inferred"} /\ ~IsError(result)) => DecimalsWellFormed(result)

(***************************************************************************)
(* Properties of the group-by engine (checked under EngineSpec).           *)
(***************************************************************************)
KeyPart(orow) == SubSeq(orow, 1, Len(group_keys))
ResultPart(orow) == SubSeq(orow, Len(group_keys) + 1, Len(orow))

\* the input rows whose group-key values are `key`, and the first of them
Members(key) ==
    { i \in 1..Len(rows) : \A g \in 1..Len(group_keys) : rows[i][group_keys[g]] = key[g] }
FirstOccurrence(key) == CHOOSE i \in Members(key) : \A j \in Members(key) : i <= j

RECURSIVE TotalOf(_, _)
TotalOf(S, c) ==
    IF S = {} THEN 0
    ELSE LET i == CHOOSE j \in S : TRUE IN rows[i][c] + TotalOf(S \ {i}, c)

\* what the aggregate of a spec over the rows of `key` is
ExpectedResult(spec, key) ==
    IF spec.name = "sum" THEN TotalOf(Members(key), spec.columns[1])
    ELSE ImplResult(registry[spec.name])

\* C11: execute_aggregate emits exactly one row per distinct group-key tuple,
\* in the order of the first occurrence of each tuple in the input (not
\* sorted); each row holds the key values followed by the aggregate results in
\* request order; with no group keys it emits exactly one row computed over all
\* input rows.
C11_GroupByOrder ==
    stage = "RowsEmitted" =>
        /\ Len(output) =
             Cardinality({ [g \in 1..Len(group_keys) |-> rows[i][group_keys[g]]] :
                             i \in 1..Len(rows) })
        /\ \A i \in 1..Len(output) :
             /\ Len(output[i]) = Len(group_keys) + Len(aggregate_specs)
             /\ Members(KeyPart(output[i])) # {}
             /\ \A j \in 1..Len(aggregate_specs) :
                  ResultPart(output[i])[j] =
                      ExpectedResult(aggregate_specs[j], KeyPart(output[i]))
        /\ \A i, j \in 1..Len(output) :
             i < j => FirstOccurrence(KeyPart(output[i])) < FirstOccurrence(KeyPart(output[j]))
        /\ group_keys = <<>> =>
             output = << [j \in 1..Len(aggregate_specs) |->
                            ExpectedResult(aggregate_specs[j], <<>>)] >>

\* rows grouped by m, b before a as in the input, with sum(q) and stddev(q)
C11_Witness ==
    /\ stage = "RowsEmitted"
    /\ rows = << <<"b", "c", 1>>, <<"a", "c", 2>>, <<"b", "d", 4>> >>
    /\ group_keys = <<1>>
    /\ aggregate_specs = <<AggregateSpec("sum", <<3>>), AggregateSpec("stddev", <<3>>)>>
    /\ output = << <<"b", 5, 123>>, <<"a", 2, 123>> >>

Implemented(n) ==
    n \in BuiltinAggregates \/ \E i \in 1..Len(registered) : registered[i][1] = n
Unimplemented ==
    { i \in 1..Len(aggregate_specs) : ~Implemented(aggregate_specs[i].name) }

\* C12: if any requested aggregate has no registered real implementation,
\* execute_aggregate fails with NotImplementedError and emits no output rows at
\* all, even when other requested functions are registered; RowsEmitted is
\* reached only when every aggregate of every partition succeeded.
C12_NoPartialOutput ==
    /\ (Unimplemented # {} /\ stage \in {"Failed", "PerGroupAggregated", "RowsEmitted"}) =>
          /\ stage = "Failed"
          /\ raised.k = "NotImplementedError"
          /\ raised.name =
               aggregate_specs[CHOOSE i \in Unimplemented :
                                   \A j \in Unimplemented : i <= j].name
    /\ stage # "RowsEmitted" => output = <<>>
    /\ stage = "RowsEmitted" =>
          /\ Unimplemented = {}
          /\ raised = None
          /\ Len(output) = Len(partitions)
          /\ \A i \in 1..Len(output) :
               Len(output[i]) = Len(group_keys) + Len(aggregate_specs)

\* stddev is registered, stddev_pop is not: the statement fails over two
\* partitions and emits nothing
C12_Witness ==
    /\ stage = "Failed"
    /\ registered = << <<"stddev", "mock_stddev">> >>
    /\ aggregate_specs = <<AggregateSpec("stddev", <<3>>), AggregateSpec("stddev_pop", <<3>>)>>
    /\ Len(partitions) = 2
    /\ raised = [k |-> "NotImplementedError", name |-> "stddev_pop"]
    /\ output = <<>>

(***************************************************************************)
(* Properties of schema inference (checked under SchemaSpec).              *)
(***************************************************************************)
Called == last_call # None

\* the positional default of field i (1-based): an underscore and the number
DefaultFieldName(i) == <<"_", <<"1", "2", "3", "4", "5", "6", "7", "8", "9">>[i]>>

\* the name field i is to have, given the names handed to the call
ExpectedFieldName(ns, i) ==
    IF ns # None /\ i <= Len(ns.items) THEN ns.items[i] ELSE DefaultFieldName(i)

PlainSequenceRow(row) ==
    /\ "items" \in DOMAIN row
    /\ "_fields" \notin DOMAIN row
    /\ row.py \in {"list", "tuple"}
    /\ row.items # <<>>

EmptyOrAbsentRow(row) ==
    row = PyNone \/ ("items" \in DOMAIN row /\ row.items = <<>>)

Inferable(row) == \A i \in 1..Len(row.items) : ~IsError(_infer_type(row.items[i]))

\* C13: for a non-empty list or tuple row of length n (its values of inferable
\* types) and an optional names list of length k, _infer_schema returns exactly
\* n fields in row order, field i named names[i-1] when i <= k and _<i>
\* otherwise (all _1.._n when names is absent), each typed by _infer_type of its
\* value; for an empty or absent row it returns a single Null-typed field named
\* names[0] or _1.
C13_SchemaFieldNaming ==
    Called =>
        LET row == last_call.row
            ns == last_call.names
            schema == last_call.result
        IN  /\ (PlainSequenceRow(row) /\ Inferable(row)) =>
                 /\ schema.k = "Struct"
                 /\ Len(schema.fields) = Len(row.items)
                 /\ \A i \in 1..Len(row.items) :
                      /\ schema.fields[i].name = ExpectedFieldName(ns, i)
                      /\ schema.fields[i].datatype = _infer_type(row.items[i])
            /\ EmptyOrAbsentRow(row) =>
                 /\ schema.k = "Struct"
                 /\ Len(schema.fields) = 1
                 /\ schema.fields[1].name = ExpectedFieldName(ns, 1)
                 /\ schema.fields[1].datatype = NullType

\* a row of three values inferred with one name: a, _2, _3
C13_Witness ==
    /\ Called
    /\ last_call.row = PyList(<<Py("int"), PyNone, Py("int")>>)
    /\ last_call.names = NameList(<< <<"a">> >>)
    /\ last_call.result =
         StructType(<< StructField(<<"a">>, LongType, TRUE),
                       StructField(<<"_", "2">>, NullType, TRUE),
                       StructField(<<"_", "3">>, LongType, TRUE) >>)

\* C15: _infer_schema leaves its arguments unchanged: after every call the
\* caller's names list has the length and contents it was made with, so each
\* row of a sequence of rows inferred with the same list gets the result it
\* would get with a fresh copy of it.
C15_NamesUnchanged ==
    /\ names = given_names
    /\ Called => last_call.result = _infer_schema(last_call.row, given_names)
====
